---- MODULE Spec2Model ----
(***************************************************************************)
(* Ledger and Market of llm_economist/market_core/market_core.py.          *)
(*                                                                         *)
(* Amounts, prices and quantities are Python floats.  A float is modelled  *)
(* as a binary floating-point number of reduced width: a significand of    *)
(* SigBits bits (53 in the interpreter's double) and a smallest quantum of *)
(* 2^-FracBits (2^-1074 in a double).  A value is held as an integer       *)
(* number of quanta; every arithmetic result is rounded to the nearest     *)
(* representable value, ties to the even significand, as IEEE 754 does.    *)
(***************************************************************************)
EXTENDS Integers, Sequences, FiniteSets, TLC

VARIABLES agent_money, agent_inventories, orders, quotes,
          pc, filled_orders, last, calls, next_id, at_start, attempts, stale, before,
          threads, spawned,
          thread_a_state, thread_b_state, events, state_lock, buttons, caller

vars == <<agent_money, agent_inventories, orders, quotes,
          pc, filled_orders, last, calls, next_id, at_start, attempts, stale, before,
          threads, spawned,
          thread_a_state, thread_b_state, events, state_lock, buttons, caller>>

-----------------------------------------------------------------------------
(* Bounds of the model *)

SigBits == 3

FracBits == 1

MaxCalls == 2

Agents == {"A", "B", "C"}

Goods == {"x", "y"}

-----------------------------------------------------------------------------
(* Float arithmetic *)

RECURSIVE Pow2(_)
Pow2(k) == IF k = 0 THEN 1 ELSE 2 * Pow2(k - 1)

\* quanta in 1.0
Unit == Pow2(FracBits)

\* the float of the integer n
Num(n) == n * Unit

RECURSIVE Quantum(_, _, _)
\* the spacing of the floats around n/d (n >= 0, d > 0): the least power of
\* two q with n/d < q * 2^SigBits
Quantum(n, d, q) ==
    IF n < d * q * Pow2(SigBits) THEN q ELSE Quantum(n, d, 2 * q)

\* n/d (n >= 0, d > 0) rounded to the nearest integer, ties to even
HalfEven(n, d) ==
    LET q == n \div d
        r == n % d
    IN  IF 2 * r < d THEN q
        ELSE IF 2 * r > d THEN q + 1
        ELSE IF q % 2 = 0 THEN q ELSE q + 1

\* n/d quanta (d /= 0) rounded to the nearest float
Round(n, d) ==
    LET sn == IF d < 0 THEN -n ELSE n
        sd == IF d < 0 THEN -d ELSE d
        an == IF sn < 0 THEN -sn ELSE sn
        q  == Quantum(an, sd, 1)
        m  == HalfEven(an, sd * q) * q
    IN  IF sn < 0 THEN -m ELSE m

\* a + b
FAdd(a, b) == Round(a + b, 1)

\* a - b
FSub(a, b) == Round(a - b, 1)

\* a * b
FMul(a, b) == Round(a * b, Unit)

\* a / b, b /= 0
FDiv(a, b) == Round(a * Unit, b)

\* min(a, b)
Min(a, b) == IF b < a THEN b ELSE a

-----------------------------------------------------------------------------
(* Python dicts: functions whose domain is the set of keys present *)

EmptyDict == [k \in {} |-> 0]

\* d.get(k, 0)
Get(d, k) == IF k \in DOMAIN d THEN d[k] ELSE 0

\* d[k] = v
Put(d, k, v) == [x \in (DOMAIN d) \cup {k} |-> IF x = k THEN v ELSE d[x]]

\* agent_inventories.get(a, {}).get(g, 0)
Held(inv, a, g) == IF a \in DOMAIN inv THEN Get(inv[a], g) ELSE 0

-----------------------------------------------------------------------------
(* Ledger *)

\* Ledger.credit
Credit(money, agent_id, amount) ==
    LET m0 == IF agent_id \in DOMAIN money THEN money ELSE Put(money, agent_id, 0)
    IN  Put(m0, agent_id, FAdd(m0[agent_id], amount))

\* Ledger.transfer_money
TransferMoney(money, from_agent, to_agent, amount) ==
    IF Get(money, from_agent) < amount
    THEN [raised |-> "InsufficientFunds", money |-> money]
    ELSE [raised |-> "none",
          money  |-> Credit(Credit(money, from_agent, -amount), to_agent, amount)]

\* Ledger.transfer_good
TransferGood(inv, from_agent, to_agent, good, quantity) ==
    LET i1 == IF from_agent \in DOMAIN inv THEN inv ELSE Put(inv, from_agent, EmptyDict)
        i2 == IF to_agent \in DOMAIN i1 THEN i1 ELSE Put(i1, to_agent, EmptyDict)
        available == Get(i2[from_agent], good)
    IN  IF available < quantity
        THEN [raised |-> "InsufficientInventory", inv |-> i2]
        ELSE IF good \notin DOMAIN i2[from_agent]
        THEN [raised |-> "KeyError", inv |-> i2]
        ELSE LET i3 == Put(i2, from_agent,
                           Put(i2[from_agent], good,
                               FSub(i2[from_agent][good], quantity)))
                 i4 == Put(i3, to_agent,
                           Put(i3[to_agent], good,
                               FAdd(Get(i3[to_agent], good), quantity)))
             IN  [raised |-> "none", inv |-> i4]

\* Ledger.add_good
AddGood(inv, to_agent, good, quantity) ==
    LET i1 == IF to_agent \in DOMAIN inv THEN inv ELSE Put(inv, to_agent, EmptyDict)
    IN  Put(i1, to_agent, Put(i1[to_agent], good, FAdd(Get(i1[to_agent], good), quantity)))

-----------------------------------------------------------------------------
(* Market *)

\* Order(consumer_id, firm_id, good, quantity, max_price); id tells apart the
\* Order objects by the position of their submission
Order(id, consumer_id, firm_id, good, quantity, max_price) ==
    [id |-> id, consumer_id |-> consumer_id, firm_id |-> firm_id, good |-> good,
     quantity |-> quantity, max_price |-> max_price]

\* Quote(firm_id, good, price, quantity_available)
Quote(firm_id, good, price, quantity_available) ==
    [firm_id |-> firm_id, good |-> good, price |-> price,
     quantity_available |-> quantity_available]

\* Market.submit_order with the order put at the head of the queue
SubmitOrder_AtHead(os, order) == <<order>> \o os

\* Market.submit_order
SubmitOrder(os, order) == Append(os, order)

\* the filter of Market.post_quote
RECURSIVE WithoutKey(_, _, _)
WithoutKey(qs, firm_id, good) ==
    IF qs = <<>> THEN <<>>
    ELSE IF Head(qs).firm_id = firm_id /\ Head(qs).good = good
         THEN WithoutKey(Tail(qs), firm_id, good)
         ELSE <<Head(qs)>> \o WithoutKey(Tail(qs), firm_id, good)

\* Market.post_quote without the removal of the entry of the same key
PostQuote_Appends(qs, quote) == Append(qs, quote)

\* Market.post_quote
PostQuote(qs, quote) == Append(WithoutKey(qs, quote.firm_id, quote.good), quote)

\* the scan without the test of firm_id: the cheapest-looking quote of any
\* seller of the good is taken
Qualifies_AnySeller(quote, order) ==
    /\ quote.good = order.good
    /\ quote.price <= order.max_price
    /\ quote.quantity_available > 0

\* the scan without the test of the good
Qualifies_AnyGood(quote, order) ==
    /\ quote.firm_id = order.firm_id
    /\ quote.price <= order.max_price
    /\ quote.quantity_available > 0

\* the scan without the test of quantity_available
Qualifies_AnyQuantity(quote, order) ==
    /\ quote.firm_id = order.firm_id
    /\ quote.good = order.good
    /\ quote.price <= order.max_price

\* the condition of the scan of Market._fill_order
Qualifies(quote, order) ==
    /\ quote.firm_id = order.firm_id
    /\ quote.good = order.good
    /\ quote.price <= order.max_price
    /\ quote.quantity_available > 0

\* the scan of Market._fill_order: the index of best_quote, 0 for None
BestQuote(qs, order) ==
    LET hits == {i \in 1..Len(qs) : Qualifies(qs[i], order)}
    IN  IF hits = {} THEN 0
        ELSE CHOOSE i \in hits : \A j \in hits : i <= j

\* the update of the matched quote with an exhausted quote taken out of the
\* registry
Decrement_DropsExhausted(qs, i, quantity) ==
    IF FSub(qs[i].quantity_available, quantity) = 0
    THEN SubSeq(qs, 1, i - 1) \o SubSeq(qs, i + 1, Len(qs))
    ELSE [qs EXCEPT ![i].quantity_available = FSub(@, quantity)]

\* the matched quote left as it was after the fill
Decrement_Skipped(qs, i, quantity) == qs

\* best_quote.quantity_available -= quantity, best_quote being the quote at
\* index i of the registry
Decrement(qs, i, quantity) == [qs EXCEPT ![i].quantity_available = FSub(@, quantity)]

\* the buyer cannot afford the fill at the quote's price
CannotAfford(balance, total_cost) == balance < total_cost

\* Market._fill_order
FillOrder(order, money, inv, qs) ==
    LET i == BestQuote(qs, order)
        nothing == [raised |-> "none", filled |-> FALSE, money |-> money, inv |-> inv,
                    quotes |-> qs, qidx |-> 0, quantity |-> 0, total_cost |-> 0,
                    clamped |-> FALSE]
    IN  IF i = 0 THEN nothing
        ELSE
        LET best_quote == qs[i]
            balance == Get(money, order.consumer_id)
            q0 == Min(order.quantity, best_quote.quantity_available)
            c0 == FMul(best_quote.price, q0)
            clamped == CannotAfford(balance, c0)
        IN  IF clamped /\ best_quote.price = 0
            THEN [nothing EXCEPT !.raised = "ZeroDivisionError", !.qidx = i,
                                 !.clamped = TRUE]
            ELSE
            LET quantity == IF clamped THEN FDiv(balance, best_quote.price) ELSE q0
                total_cost == IF clamped THEN FMul(best_quote.price, quantity) ELSE c0
                tm == TransferMoney(money, order.consumer_id, order.firm_id, total_cost)
                tg == TransferGood(inv, order.firm_id, order.consumer_id, order.good,
                                   quantity)
                tried == [nothing EXCEPT !.qidx = i, !.quantity = quantity,
                                         !.total_cost = total_cost, !.clamped = clamped]
            IN  IF tm.raised # "none"
                THEN [tried EXCEPT !.raised = tm.raised]
                ELSE IF tg.raised # "none"
                THEN [tried EXCEPT !.raised = tg.raised, !.money = tm.money,
                                   !.inv = tg.inv]
                ELSE [tried EXCEPT !.filled = TRUE, !.money = tm.money, !.inv = tg.inv,
                                   !.quotes = Decrement(qs, i, quantity)]

-----------------------------------------------------------------------------
(* ThreadManager (utils/thread_manager.py): the states of Thread A and of    *)
(* Thread B, the seven events, and state_lock, a threading.Lock, which is    *)
(* not reentrant.  buttons is the set of buttons of the ThreadCoordinator    *)
(* window that are enabled, and caller is the line a thread that has called  *)
(* stop_all_threads stands at.                                               *)

manager_vars == <<thread_a_state, thread_b_state, events, state_lock, buttons, caller>>

\* ThreadState
ThreadState == {"RUNNING", "PAUSED", "STOPPED", "STARTED"}

\* the events of the manager; events is the set of those that are set
Events == {"running_a", "running_b", "paused_a", "started_a", "paused_b",
           "stopped_a", "stopped_b"}

\* the buttons of the window
Buttons == {"start_a", "pause_a", "stop_a", "start_b", "pause_b", "stop_b"}

\* ThreadManager.__init__; no window is shown and nobody is in stop_all_threads
ManagerInit ==
    /\ thread_a_state = "STOPPED"
    /\ thread_b_state = "STOPPED"
    /\ events = {}
    /\ state_lock = "free"
    /\ buttons = {}
    /\ caller = "none"

-----------------------------------------------------------------------------
(* Arguments of the calls.  Agent names are opaque, so orders are placed by  *)
(* A or B with B or C (B trades on both sides, also with itself) and        *)
(* transfers are made between A and B, C being the agent not involved.      *)

Buyers == {"A", "B"}

Sellers == {"B", "C"}

Parties == {"A", "B"}

CreditAmounts == {Num(-1), Num(2)}

TransferAmounts == {Num(-1), Num(2)}

GoodAmounts == {Num(-1), Num(2)}

GoodQuantities == {0, Num(2)}

Prices == {0, Num(1), Num(3)}

Offered == {0, Num(2), Num(7)}

Wanted == {Num(2), Num(7)}

\* the record of the step taken last
Did(op, raised, args, ret) == [op |-> op, raised |-> raised, args |-> args, ret |-> ret]

NoArgs == [none |-> TRUE]

\* the ledgers a run starts from: Ledger() as constructed, or as funded by the
\* driver's credit and add_good calls
StartLedgers ==
    { [money |-> EmptyDict, inv |-> EmptyDict],
      [money |-> Credit(Credit(EmptyDict, "A", Num(7)), "B", Num(2)),
       inv   |-> AddGood(AddGood(EmptyDict, "B", "x", Num(7)), "C", "x", Num(2))] }

RECURSIVE SumOf(_, _)
\* the sum of f[k] over the keys k in ks
SumOf(f, ks) ==
    IF ks = {} THEN 0
    ELSE LET k == CHOOSE x \in ks : TRUE IN f[k] + SumOf(f, ks \ {k})

\* the sum of all balances, in quanta
TotalMoney(money) == SumOf(money, DOMAIN money)

\* the quantity of good held by all agents together, in quanta
TotalGood(inv, good) == SumOf([a \in DOMAIN inv |-> Get(inv[a], good)], DOMAIN inv)

\* what the ledger holds in all
Totals(money, inv) ==
    [money |-> TotalMoney(money), goods |-> [g \in Goods |-> TotalGood(inv, g)]]

\* the registries a run starts from: Market() as constructed, or as the
\* sellers' post_quote calls of an earlier tick left it
StartQuotes ==
    { <<>>,
      PostQuote(PostQuote(<<>>, Quote("B", "x", Num(3), Num(7))),
                Quote("C", "x", Num(1), Num(2))) }

Init ==
    /\ \E l \in StartLedgers :
          /\ agent_money = l.money
          /\ agent_inventories = l.inv
    /\ orders = <<>>
    /\ quotes \in StartQuotes
    /\ pc = "idle"
    /\ filled_orders = <<>>
    /\ last = Did("init", "none", NoArgs, <<>>)
    /\ calls = 0
    /\ next_id = 1
    /\ at_start = {}
    /\ attempts = EmptyDict
    /\ stale = {}
    /\ before = Totals(agent_money, agent_inventories)
    /\ threads = <<>>
    /\ spawned = EmptyDict
    /\ ManagerInit

\* a call from the driver or an agent; clear is not running
Call ==
    /\ pc = "idle"
    /\ calls < MaxCalls
    /\ calls' = calls + 1

\* ledger.credit(agent_id, amount)
DoCredit ==
    /\ Call
    /\ \E agent_id \in Agents, amount \in CreditAmounts :
          /\ agent_money' = Credit(agent_money, agent_id, amount)
          /\ last' = Did("credit", "none", [agent_id |-> agent_id, amount |-> amount], <<>>)
    /\ UNCHANGED <<threads, spawned, agent_inventories, orders, quotes, pc, filled_orders, next_id,
                   at_start, attempts, stale, before>>
    /\ UNCHANGED manager_vars

\* ledger.transfer_money(from_agent, to_agent, amount)
DoTransferMoney ==
    /\ Call
    /\ \E from_agent \in Parties, to_agent \in Parties, amount \in TransferAmounts :
          LET r == TransferMoney(agent_money, from_agent, to_agent, amount)
          IN  /\ agent_money' = r.money
              /\ last' = Did("transfer_money", r.raised,
                             [from_agent |-> from_agent, to_agent |-> to_agent,
                              amount |-> amount], <<>>)
    /\ UNCHANGED <<threads, spawned, agent_inventories, orders, quotes, pc, filled_orders, next_id,
                   at_start, attempts, stale, before>>
    /\ UNCHANGED manager_vars

\* ledger.transfer_good(from_agent, to_agent, good, quantity)
DoTransferGood ==
    /\ Call
    /\ \E from_agent \in Parties, to_agent \in Parties, good \in Goods,
          quantity \in GoodQuantities :
          LET r == TransferGood(agent_inventories, from_agent, to_agent, good, quantity)
          IN  /\ agent_inventories' = r.inv
              /\ last' = Did("transfer_good", r.raised,
                             [from_agent |-> from_agent, to_agent |-> to_agent,
                              good |-> good, quantity |-> quantity], <<>>)
    /\ UNCHANGED <<threads, spawned, agent_money, orders, quotes, pc, filled_orders, next_id,
                   at_start, attempts, stale, before>>
    /\ UNCHANGED manager_vars

\* ledger.add_good(to_agent, good, quantity)
DoAddGood ==
    /\ Call
    /\ \E to_agent \in Agents, good \in Goods, quantity \in GoodAmounts :
          /\ agent_inventories' = AddGood(agent_inventories, to_agent, good, quantity)
          /\ last' = Did("add_good", "none",
                         [to_agent |-> to_agent, good |-> good, quantity |-> quantity],
                         <<>>)
    /\ UNCHANGED <<threads, spawned, agent_money, orders, quotes, pc, filled_orders, next_id,
                   at_start, attempts, stale, before>>
    /\ UNCHANGED manager_vars

\* market.submit_order(Order(...))
DoSubmitOrder ==
    /\ Call
    /\ \E consumer_id \in Buyers, firm_id \in Sellers, good \in Goods,
          quantity \in Wanted, max_price \in Prices \ {0} :
          LET order == Order(next_id, consumer_id, firm_id, good, quantity, max_price)
          IN  /\ orders' = SubmitOrder(orders, order)
              /\ last' = Did("submit_order", "none", order, <<>>)
    /\ next_id' = next_id + 1
    /\ UNCHANGED <<threads, spawned, agent_money, agent_inventories, quotes, pc, filled_orders,
                   at_start, attempts, stale, before>>
    /\ UNCHANGED manager_vars

\* market.post_quote(Quote(...))
DoPostQuote ==
    /\ Call
    /\ \E firm_id \in Sellers, good \in Goods, price \in Prices,
          quantity_available \in Offered :
          LET quote == Quote(firm_id, good, price, quantity_available)
          IN  /\ quotes' = PostQuote(quotes, quote)
              /\ last' = Did("post_quote", "none", quote, <<>>)
    /\ UNCHANGED <<threads, spawned, agent_money, agent_inventories, orders, pc, filled_orders, next_id,
                   at_start, attempts, stale, before>>
    /\ UNCHANGED manager_vars

\* the list of clear with every order tried put on it
Appended_Always(fs, order, filled) == Append(fs, order)

\* if filled: filled_orders.append(order)
Appended(fs, order, filled) == IF filled THEN Append(fs, order) ELSE fs

\* market.clear(ledger) is called, and the registry is emptied for the tick
ClearCall_ResetsQuotes ==
    /\ pc = "idle"
    /\ pc' = "clear"
    /\ filled_orders' = <<>>
    /\ quotes' = <<>>
    /\ at_start' = {orders[i].id : i \in 1..Len(orders)}
    /\ before' = Totals(agent_money, agent_inventories)
    /\ last' = Did("clear_call", "none", NoArgs, <<>>)
    /\ UNCHANGED <<threads, spawned, agent_money, agent_inventories, orders, calls, next_id,
                   attempts, stale>>
    /\ UNCHANGED manager_vars

\* market.clear(ledger) is called: filled_orders = []
ClearCall ==
    /\ pc = "idle"
    /\ pc' = "clear"
    /\ filled_orders' = <<>>
    /\ at_start' = {orders[i].id : i \in 1..Len(orders)}
    /\ before' = Totals(agent_money, agent_inventories)
    /\ last' = Did("clear_call", "none", NoArgs, <<>>)
    /\ UNCHANGED <<threads, spawned, agent_money, agent_inventories, orders, quotes, calls, next_id,
                   attempts, stale>>
    /\ UNCHANGED manager_vars

\* one pass of the loop of clear: popleft, _fill_order, append.  An error
\* raised by _fill_order leaves clear, and filled_orders is lost with its frame
ClearIter ==
    /\ pc = "clear"
    /\ orders # <<>>
    /\ LET order == Head(orders)
           r == FillOrder(order, agent_money, agent_inventories, quotes)
       IN  /\ orders' = Tail(orders)
           /\ agent_money' = r.money
           /\ agent_inventories' = r.inv
           /\ quotes' = r.quotes
           /\ attempts' = Put(attempts, order.id, Get(attempts, order.id) + 1)
           /\ last' = Did("_fill_order", r.raised, order,
                          [filled |-> r.filled, qidx |-> r.qidx, quantity |-> r.quantity,
                           total_cost |-> r.total_cost, clamped |-> r.clamped])
           /\ IF r.raised = "none"
              THEN /\ pc' = "clear"
                   /\ filled_orders' = Appended(filled_orders, order, r.filled)
                   /\ stale' = stale
              ELSE /\ pc' = "idle"
                   /\ filled_orders' = <<>>
                   /\ stale' = stale \cup at_start
    /\ UNCHANGED <<threads, spawned, calls, next_id, at_start, before>>
    /\ UNCHANGED manager_vars

\* the queue is empty: clear returns filled_orders
ClearReturn ==
    /\ pc = "clear"
    /\ orders = <<>>
    /\ pc' = "idle"
    /\ last' = Did("clear", "none", NoArgs, filled_orders)
    /\ filled_orders' = <<>>
    /\ stale' = stale \cup at_start
    /\ UNCHANGED <<threads, spawned, agent_money, agent_inventories, orders, quotes, calls, next_id,
                   at_start, attempts, before>>
    /\ UNCHANGED manager_vars

RECURSIVE Clear(_, _, _, _, _)
\* Market.clear run to its end on the queue os: the loop of lines 80-84, left
\* at the first error _fill_order raises, with the list clear returns (none
\* when it raises) and the queue, the ledger and the registry it leaves
Clear(os, money, inv, qs, filled) ==
    IF os = <<>>
    THEN [raised |-> "none", filled |-> filled, orders |-> os,
          money |-> money, inv |-> inv, quotes |-> qs]
    ELSE LET r == FillOrder(Head(os), money, inv, qs)
         IN  IF r.raised = "none"
             THEN Clear(Tail(os), r.money, r.inv, r.quotes,
                        Appended(filled, Head(os), r.filled))
             ELSE [raised |-> r.raised, filled |-> <<>>, orders |-> Tail(os),
                   money |-> r.money, inv |-> r.inv, quotes |-> r.quotes]

Next ==
    \/ DoCredit
    \/ DoTransferMoney
    \/ DoTransferGood
    \/ DoAddGood
    \/ DoSubmitOrder
    \/ DoPostQuote
    \/ ClearCall
    \/ ClearIter
    \/ ClearReturn

Spec == Init /\ [][Next]_vars

\* a funded ledger whose buyer A holds a balance in a range where the floats
\* are spaced wider than the costs of the orders
LargeLedger ==
    [money |-> Credit(Credit(EmptyDict, "A", Num(16)), "B", Num(2)),
     inv   |-> AddGood(AddGood(EmptyDict, "B", "x", Num(7)), "C", "x", Num(2))]

InitLarge ==
    /\ agent_money = LargeLedger.money
    /\ agent_inventories = LargeLedger.inv
    /\ orders = <<>>
    /\ quotes \in StartQuotes
    /\ pc = "idle"
    /\ filled_orders = <<>>
    /\ last = Did("init", "none", NoArgs, <<>>)
    /\ calls = 0
    /\ next_id = 1
    /\ at_start = {}
    /\ attempts = EmptyDict
    /\ stale = {}
    /\ before = Totals(agent_money, agent_inventories)
    /\ threads = <<>>
    /\ spawned = EmptyDict
    /\ ManagerInit

SpecLarge == InitLarge /\ [][Next]_vars

\* a ledger whose buyer A is in debt, as credit allows: the state after
\* credit("A", -3.0), credit("B", 2.0), add_good("B", "x", 7.0) and
\* add_good("C", "x", 2.0)
DebtLedger ==
    [money |-> Credit(Credit(EmptyDict, "A", Num(-3)), "B", Num(2)),
     inv   |-> AddGood(AddGood(EmptyDict, "B", "x", Num(7)), "C", "x", Num(2))]

InitDebt ==
    /\ agent_money = DebtLedger.money
    /\ agent_inventories = DebtLedger.inv
    /\ orders = <<>>
    /\ quotes \in StartQuotes
    /\ pc = "idle"
    /\ filled_orders = <<>>
    /\ last = Did("init", "none", NoArgs, <<>>)
    /\ calls = 0
    /\ next_id = 1
    /\ at_start = {}
    /\ attempts = EmptyDict
    /\ stale = {}
    /\ before = Totals(agent_money, agent_inventories)
    /\ threads = <<>>
    /\ spawned = EmptyDict
    /\ ManagerInit

SpecDebt == InitDebt /\ [][Next]_vars

\* a ledger with two funded buyers and a seller C that holds both goods: the
\* state after credit("A", 7.0), credit("B", 7.0), credit("C", 3.0),
\* add_good("C", "x", 2.0) and add_good("C", "y", 2.0)
PairLedger ==
    [money |-> Credit(Credit(Credit(EmptyDict, "A", Num(7)), "B", Num(7)), "C", Num(3)),
     inv   |-> AddGood(AddGood(EmptyDict, "C", "x", Num(2)), "C", "y", Num(2))]

\* the registry after C has posted what it holds: x at 1.0 and y at 3.0
PairQuotes ==
    PostQuote(PostQuote(<<>>, Quote("C", "x", Num(1), Num(2))),
              Quote("C", "y", Num(3), Num(2)))

InitPair ==
    /\ agent_money = PairLedger.money
    /\ agent_inventories = PairLedger.inv
    /\ orders = <<>>
    /\ quotes = PairQuotes
    /\ pc = "idle"
    /\ filled_orders = <<>>
    /\ last = Did("init", "none", NoArgs, <<>>)
    /\ calls = 0
    /\ next_id = 1
    /\ at_start = {}
    /\ attempts = EmptyDict
    /\ stale = {}
    /\ before = Totals(agent_money, agent_inventories)
    /\ threads = <<>>
    /\ spawned = EmptyDict
    /\ ManagerInit

SpecPair == InitPair /\ [][Next]_vars

-----------------------------------------------------------------------------
(* Two threads, each in a transfer_money call on the same ledger.  The code  *)
(* takes no lock; the interpreter may switch threads where a call is         *)
(* entered, so that the test of line 15 and the two credit calls of a        *)
(* transfer are three steps, between which the other thread may run.         *)

Threads == {1, 2}

\* a thread that has entered transfer_money(from_agent, to_agent, amount)
Entered(from_agent, to_agent, amount) ==
    [at |-> "test", from_agent |-> from_agent, to_agent |-> to_agent,
     amount |-> amount, raised |-> "none"]

InitThreads ==
    /\ \E l \in StartLedgers :
          /\ agent_money = l.money
          /\ agent_inventories = l.inv
    /\ orders = <<>>
    /\ quotes = <<>>
    /\ pc = "idle"
    /\ filled_orders = <<>>
    /\ last = Did("init", "none", NoArgs, <<>>)
    /\ calls = 0
    /\ next_id = 1
    /\ at_start = {}
    /\ attempts = EmptyDict
    /\ stale = {}
    /\ before = Totals(agent_money, agent_inventories)
    /\ threads \in [Threads -> {Entered(f, t, a) :
                                   f \in Parties, t \in Parties, a \in TransferAmounts}]
    /\ spawned = agent_money
    /\ ManagerInit

\* line 15: the test of the sender's balance, and the raise of line 16
TestFunds ==
    \E t \in Threads :
       /\ threads[t].at = "test"
       /\ threads' = [threads EXCEPT ![t] =
             IF Get(agent_money, @.from_agent) < @.amount
             THEN [@ EXCEPT !.at = "done", !.raised = "InsufficientFunds"]
             ELSE [@ EXCEPT !.at = "debit"]]
       /\ UNCHANGED <<agent_money, agent_inventories, orders, quotes, pc, filled_orders,
                      last, calls, next_id, at_start, attempts, stale, before, spawned>>
    /\ UNCHANGED manager_vars

\* line 17: self.credit(from_agent, -amount)
DebitSender ==
    \E t \in Threads :
       /\ threads[t].at = "debit"
       /\ agent_money' = Credit(agent_money, threads[t].from_agent, -threads[t].amount)
       /\ threads' = [threads EXCEPT ![t].at = "credit"]
       /\ UNCHANGED <<agent_inventories, orders, quotes, pc, filled_orders,
                      last, calls, next_id, at_start, attempts, stale, before, spawned>>
    /\ UNCHANGED manager_vars

\* line 18: self.credit(to_agent, amount)
CreditReceiver ==
    \E t \in Threads :
       /\ threads[t].at = "credit"
       /\ agent_money' = Credit(agent_money, threads[t].to_agent, threads[t].amount)
       /\ threads' = [threads EXCEPT ![t].at = "done"]
       /\ UNCHANGED <<agent_inventories, orders, quotes, pc, filled_orders,
                      last, calls, next_id, at_start, attempts, stale, before, spawned>>
    /\ UNCHANGED manager_vars

NextThreads ==
    \/ TestFunds
    \/ DebitSender
    \/ CreditReceiver

SpecThreads == InitThreads /\ [][NextThreads]_vars

-----------------------------------------------------------------------------
(* FixedFirmAgent (agents/firm.py) and FixedConsumerAgent                    *)
(* (agents/consumer.py).  An agent keeps its name, its list of goods, the    *)
(* ledger and the market, and a reference to the dict the ledger holds under *)
(* its name, which the ledger creates once and never replaces; none of these *)
(* changes after construction, so the agents are given by definitions and    *)
(* their state is the ledger's.                                              *)

MaxAgentCalls == 7

\* FixedFirmAgent(name = "B", goods = ["x", "y"], initial_cash = 16.0, ...)
FirmName == "B"

FirmGoods == <<"x", "y">>

InitialCash == Num(16)

\* FixedConsumerAgent(name = "A", income_stream = 14.0, ..., goods = ["x", "y"])
ConsumerName == "A"

ConsumerGoods == <<"x", "y">>

Income == Num(14)

\* the arguments of purchase_supplies and of set_price
SupplyQuantities == {Num(2), Num(7)}

SupplyPrices == {Num(1), Num(3)}

SetPrices == {0, Num(1), Num(3)}

RECURSIVE AddGoods(_, _, _, _)
\* for good in goods: ledger.add_good(name, good, quantity)
AddGoods(inv, name, goods, quantity) ==
    IF goods = <<>> THEN inv
    ELSE AddGoods(AddGood(inv, name, Head(goods), quantity), name, Tail(goods), quantity)

\* FixedFirmAgent.__init__
FirmInit(l, name, goods, initial_cash) ==
    [money |-> Credit(l.money, name, initial_cash),
     inv   |-> AddGoods(AddGood(l.inv, name, "supply", 0), name, goods, 0)]

\* FixedConsumerAgent.__init__
ConsumerInit(l, name, goods) ==
    [money |-> Credit(l.money, name, 0),
     inv   |-> AddGoods(l.inv, name, goods, 0)]

\* the property cash with the value kept that the agent was constructed with
CashView_Copy(money, name) == IF name = FirmName THEN InitialCash ELSE 0

\* the property cash of both agents: self.ledger.agent_money[self.name]
CashView(money, name) == money[name]

\* self.inventory, the dict of the ledger under the agent's name
InventoryView(inv, name) == inv[name]

\* the property supplies: self.inventory["supply"]
SuppliesView(inv, name) == InventoryView(inv, name)["supply"]

\* FixedFirmAgent.set_price: the goods in the order of the dict, each with price
SetPrice(goods, price) == [i \in 1..Len(goods) |-> [good |-> goods[i], price |-> price]]

\* FixedFirmAgent.purchase_supplies
PurchaseSupplies(money, inv, name, quantity_to_purchase, unit_price) ==
    LET cost == FMul(quantity_to_purchase, unit_price)
        total_cost == Min(cost, CashView(money, name))
    IN  IF unit_price = 0
        THEN [raised |-> "ZeroDivisionError", money |-> money, inv |-> inv,
              total_cost |-> total_cost, ret |-> 0]
        ELSE LET total_quantity == FDiv(total_cost, unit_price)
             IN  [raised |-> "none",
                  money |-> Credit(money, name, -total_cost),
                  inv |-> AddGood(inv, name, "supply", total_quantity),
                  total_cost |-> total_cost, ret |-> total_quantity]

\* FixedFirmAgent.produce_goods
ProduceGoods(inv, name, goods) ==
    LET supply_available == SuppliesView(inv, name)
    IN  IF supply_available <= 0 THEN inv
        ELSE LET production_per_good == FDiv(supply_available, Num(Len(goods)))
             IN  AddGood(AddGoods(inv, name, goods, production_per_good),
                         name, "supply", -supply_available)

\* the test of post_quotes without the condition on the quantity held
Quotable_AnyQuantity(inv, name, good) == good \in DOMAIN InventoryView(inv, name)

\* the test of post_quotes: good in self.inventory and self.inventory[good] > 0
Quotable(inv, name, good) ==
    /\ good \in DOMAIN InventoryView(inv, name)
    /\ InventoryView(inv, name)[good] > 0

RECURSIVE PostQuotes(_, _, _, _)
\* FixedFirmAgent.post_quotes: the registry it leaves
PostQuotes(qs, inv, name, prices) ==
    IF prices = <<>> THEN qs
    ELSE LET good == Head(prices).good
             posted == IF Quotable(inv, name, good)
                       THEN PostQuote(qs, Quote(name, good, Head(prices).price,
                                                InventoryView(inv, name)[good]))
                       ELSE qs
         IN  PostQuotes(posted, inv, name, Tail(prices))

\* FixedConsumerAgent.make_orders: the index of the first quote for the good,
\* 0 if there is none
FirstQuote(qs, good) ==
    LET hits == {i \in 1..Len(qs) : qs[i].good = good}
    IN  IF hits = {} THEN 0 ELSE CHOOSE i \in hits : \A j \in hits : i <= j

\* the quantity make_orders asks of a quote, with cash cash and n goods
OrderQuantity(cash, n, quote) ==
    Min(FDiv(FDiv(cash, Num(n)), quote.price), quote.quantity_available)

RECURSIVE MakeOrders(_, _, _, _, _, _, _)
\* FixedConsumerAgent.make_orders: the queue it leaves and the error it ends
\* with, the goods of the inventory being taken in the order of goods
MakeOrders(os, id, cash, n, qs, name, goods) ==
    IF goods = <<>> THEN [raised |-> "none", orders |-> os, next_id |-> id]
    ELSE LET i == FirstQuote(qs, Head(goods))
         IN  IF i = 0 THEN MakeOrders(os, id, cash, n, qs, name, Tail(goods))
             ELSE IF qs[i].price = 0
             THEN [raised |-> "ZeroDivisionError", orders |-> os, next_id |-> id]
             ELSE MakeOrders(SubmitOrder(os, Order(id, name, qs[i].firm_id, Head(goods),
                                                   OrderQuantity(cash, n, qs[i]),
                                                   qs[i].price)),
                             id + 1, cash, n, qs, name, Tail(goods))

\* the state after Ledger(), Market(), FixedFirmAgent(...), FixedConsumerAgent(...)
InitAgents ==
    /\ LET l == ConsumerInit(FirmInit([money |-> EmptyDict, inv |-> EmptyDict],
                                      FirmName, FirmGoods, InitialCash),
                             ConsumerName, ConsumerGoods)
       IN  /\ agent_money = l.money
           /\ agent_inventories = l.inv
    /\ orders = <<>>
    /\ quotes = <<>>
    /\ pc = "idle"
    /\ filled_orders = <<>>
    /\ last = Did("init", "none", NoArgs, <<>>)
    /\ calls = 0
    /\ next_id = 1
    /\ at_start = {}
    /\ attempts = EmptyDict
    /\ stale = {}
    /\ before = Totals(agent_money, agent_inventories)
    /\ threads = <<>>
    /\ spawned = EmptyDict
    /\ ManagerInit

\* a call of a method of an agent by the driver; clear is not running
AgentCall ==
    /\ pc = "idle"
    /\ calls < MaxAgentCalls
    /\ calls' = calls + 1

\* consumer.receive_income()
ReceiveIncome ==
    /\ AgentCall
    /\ agent_money' = Credit(agent_money, ConsumerName, Income)
    /\ last' = Did("receive_income", "none", NoArgs, <<>>)
    /\ UNCHANGED <<agent_inventories, orders, quotes, pc, filled_orders, next_id,
                   at_start, attempts, stale, before, threads, spawned>>
    /\ UNCHANGED manager_vars

\* firm.purchase_supplies(quantity_to_purchase, unit_price, timestep)
DoPurchaseSupplies ==
    /\ AgentCall
    /\ \E quantity_to_purchase \in SupplyQuantities, unit_price \in SupplyPrices :
          LET r == PurchaseSupplies(agent_money, agent_inventories, FirmName,
                                    quantity_to_purchase, unit_price)
          IN  /\ agent_money' = r.money
              /\ agent_inventories' = r.inv
              /\ last' = Did("purchase_supplies", r.raised,
                             [quantity_to_purchase |-> quantity_to_purchase,
                              unit_price |-> unit_price],
                             [total_quantity |-> r.ret, total_cost |-> r.total_cost])
    /\ UNCHANGED <<orders, quotes, pc, filled_orders, next_id,
                   at_start, attempts, stale, before, threads, spawned>>
    /\ UNCHANGED manager_vars

\* firm.produce_goods(timestep)
DoProduceGoods ==
    /\ AgentCall
    /\ agent_inventories' = ProduceGoods(agent_inventories, FirmName, FirmGoods)
    /\ last' = Did("produce_goods", "none", NoArgs, <<>>)
    /\ UNCHANGED <<agent_money, orders, quotes, pc, filled_orders, next_id,
                   at_start, attempts, stale, before, threads, spawned>>
    /\ UNCHANGED manager_vars

\* firm.post_quotes(firm.set_price(price))
DoPostQuotes ==
    /\ AgentCall
    /\ \E price \in SetPrices :
          /\ quotes' = PostQuotes(quotes, agent_inventories, FirmName,
                                  SetPrice(FirmGoods, price))
          /\ last' = Did("post_quotes", "none", [price |-> price], <<>>)
    /\ UNCHANGED <<agent_money, agent_inventories, orders, pc, filled_orders, next_id,
                   at_start, attempts, stale, before, threads, spawned>>
    /\ UNCHANGED manager_vars

\* consumer.make_orders(timestep)
DoMakeOrders ==
    /\ AgentCall
    /\ LET cash == CashView(agent_money, ConsumerName)
           n == Cardinality(DOMAIN InventoryView(agent_inventories, ConsumerName))
           r == MakeOrders(orders, next_id, cash, n, quotes, ConsumerName, ConsumerGoods)
       IN  /\ orders' = r.orders
           /\ next_id' = r.next_id
           /\ last' = Did("make_orders", r.raised, [cash |-> cash, n |-> n],
                          SubSeq(r.orders, Len(orders) + 1, Len(r.orders)))
    /\ UNCHANGED <<agent_money, agent_inventories, quotes, pc, filled_orders,
                   at_start, attempts, stale, before, threads, spawned>>
    /\ UNCHANGED manager_vars

NextAgents ==
    \/ ReceiveIncome
    \/ DoPurchaseSupplies
    \/ DoProduceGoods
    \/ DoPostQuotes
    \/ DoMakeOrders
    \/ ClearCall
    \/ ClearIter
    \/ ClearReturn

SpecAgents == InitAgents /\ [][NextAgents]_vars

-----------------------------------------------------------------------------
(* ThreadCoordinator (utils/thread_coordinator.py): a window with a Start, a *)
(* Pause and a Stop button for each thread.  The callbacks of the buttons    *)
(* and update_status, which runs every 500 ms, are run one at a time by the  *)
(* main loop of the window, so that between two runs of update_status the    *)
(* buttons are those of the states it saw.  The ledger and the market are    *)
(* not involved.                                                             *)

market_vars == <<agent_money, agent_inventories, orders, quotes, pc, filled_orders,
                 calls, next_id, at_start, attempts, stale, before, threads, spawned>>

\* ThreadManager.start_thread_a, inside the lock
StartThreadA(state, evs) ==
    IF state = "STOPPED" \/ state = "PAUSED"
    THEN [state |-> "RUNNING",
          events |-> (evs \cup {"running_a", "started_a"}) \ {"paused_a", "stopped_a"}]
    ELSE [state |-> state, events |-> evs]

\* ThreadManager.start_thread_b, inside the lock
StartThreadB(state, evs) ==
    IF state = "STOPPED" \/ state = "PAUSED"
    THEN [state |-> "RUNNING",
          events |-> (evs \cup {"running_b"}) \ {"paused_b", "stopped_b"}]
    ELSE [state |-> state, events |-> evs]

\* ThreadManager.pause_thread_a, inside the lock
PauseThreadA(state, evs) ==
    IF state = "RUNNING"
    THEN [state |-> "PAUSED",
          events |-> (evs \cup {"paused_a"}) \ {"running_a", "stopped_a"}]
    ELSE [state |-> state, events |-> evs]

\* ThreadManager.pause_thread_b, inside the lock
PauseThreadB(state, evs) ==
    IF state = "RUNNING"
    THEN [state |-> "PAUSED",
          events |-> (evs \cup {"paused_b"}) \ {"running_b", "stopped_b"}]
    ELSE [state |-> state, events |-> evs]

\* ThreadManager.stop_thread_a, inside the lock
StopThreadA(state, evs) ==
    IF state = "RUNNING"
    THEN [state |-> "STOPPED",
          events |-> (evs \cup {"stopped_a"}) \ {"running_a", "paused_a"}]
    ELSE [state |-> state, events |-> evs]

\* ThreadManager.stop_thread_b, inside the lock
StopThreadB(state, evs) ==
    IF state = "RUNNING"
    THEN [state |-> "STOPPED",
          events |-> (evs \cup {"stopped_b"}) \ {"running_b", "paused_b"}]
    ELSE [state |-> state, events |-> evs]

\* the buttons update_status enables for a thread in state state; start,
\* pause and stop are the names of its three buttons
ButtonsOf(state, start, pause, stop) ==
    IF state = "RUNNING" THEN {pause, stop}
    ELSE IF state = "PAUSED" THEN {start, stop}
    ELSE {start}

\* ThreadCoordinator.update_status: the buttons it leaves enabled
UpdateStatus(state_a, state_b) ==
    LET a == ButtonsOf(state_a, "start_a", "pause_a", "stop_a")
        b == ButtonsOf(state_b, "start_b", "pause_b", "stop_b")
    IN  IF state_a = "PAUSED" /\ state_b = "STOPPED" THEN a \cup b \cup {"start_b"}
        ELSE IF state_a # "PAUSED" THEN a \cup (b \ {"start_b"})
        ELSE a \cup b

\* the state after ThreadManager() and show_gui, which creates the buttons
\* and runs update_status once before it enters the main loop
InitCoordinator ==
    /\ agent_money = EmptyDict
    /\ agent_inventories = EmptyDict
    /\ orders = <<>>
    /\ quotes = <<>>
    /\ pc = "idle"
    /\ filled_orders = <<>>
    /\ last = Did("init", "none", NoArgs, <<>>)
    /\ calls = 0
    /\ next_id = 1
    /\ at_start = {}
    /\ attempts = EmptyDict
    /\ stale = {}
    /\ before = Totals(agent_money, agent_inventories)
    /\ threads = <<>>
    /\ spawned = EmptyDict
    /\ thread_a_state = "STOPPED"
    /\ thread_b_state = "STOPPED"
    /\ events = {}
    /\ state_lock = "free"
    /\ buttons = UpdateStatus("STOPPED", "STOPPED")
    /\ caller = "none"

\* the user presses an enabled button; its callback takes state_lock, runs
\* and releases it
Click(button) ==
    /\ button \in buttons
    /\ state_lock = "free"
    /\ last' = Did(button, "none", NoArgs, <<>>)
    /\ UNCHANGED <<state_lock, buttons, caller>>
    /\ UNCHANGED market_vars

\* the Start button of Thread A
ClickStartA ==
    /\ Click("start_a")
    /\ thread_a_state' = StartThreadA(thread_a_state, events).state
    /\ events' = StartThreadA(thread_a_state, events).events
    /\ UNCHANGED thread_b_state

\* the Pause button of Thread A
ClickPauseA ==
    /\ Click("pause_a")
    /\ thread_a_state' = PauseThreadA(thread_a_state, events).state
    /\ events' = PauseThreadA(thread_a_state, events).events
    /\ UNCHANGED thread_b_state

\* the Stop button of Thread A
ClickStopA ==
    /\ Click("stop_a")
    /\ thread_a_state' = StopThreadA(thread_a_state, events).state
    /\ events' = StopThreadA(thread_a_state, events).events
    /\ UNCHANGED thread_b_state

\* the Start button of Thread B
ClickStartB ==
    /\ Click("start_b")
    /\ thread_b_state' = StartThreadB(thread_b_state, events).state
    /\ events' = StartThreadB(thread_b_state, events).events
    /\ UNCHANGED thread_a_state

\* the Pause button of Thread B
ClickPauseB ==
    /\ Click("pause_b")
    /\ thread_b_state' = PauseThreadB(thread_b_state, events).state
    /\ events' = PauseThreadB(thread_b_state, events).events
    /\ UNCHANGED thread_a_state

\* the Stop button of Thread B
ClickStopB ==
    /\ Click("stop_b")
    /\ thread_b_state' = StopThreadB(thread_b_state, events).state
    /\ events' = StopThreadB(thread_b_state, events).events
    /\ UNCHANGED thread_a_state

\* the main loop runs update_status, which reads the two states without the
\* lock
DoUpdateStatus ==
    /\ buttons' = UpdateStatus(thread_a_state, thread_b_state)
    /\ last' = Did("update_status", "none", NoArgs, <<>>)
    /\ UNCHANGED <<thread_a_state, thread_b_state, events, state_lock, caller>>
    /\ UNCHANGED market_vars

NextCoordinator ==
    \/ ClickStartA
    \/ ClickPauseA
    \/ ClickStopA
    \/ ClickStartB
    \/ ClickPauseB
    \/ ClickStopB
    \/ DoUpdateStatus

SpecCoordinator == InitCoordinator /\ [][NextCoordinator]_vars

\* a thread calls stop_all_threads and takes state_lock at line 84
StopAllCall ==
    /\ caller \in {"none", "returned"}
    /\ state_lock = "free"
    /\ state_lock' = "stop_all_threads"
    /\ caller' = "line85"
    /\ UNCHANGED <<thread_a_state, thread_b_state, events, buttons, last>>
    /\ UNCHANGED market_vars

\* the next step of the thread in stop_all_threads: it calls stop_thread_a
\* (line 85) and comes to the with statement of line 68, waits there until
\* state_lock is free, runs lines 69-73 and leaves the with statement, which
\* releases the lock; the same for stop_thread_b (lines 86, 76-81); it then
\* leaves the with statement of line 84 and returns
StopAllStep ==
    /\ caller \in {"line85", "line68", "line86", "line76", "exit"}
    /\ IF caller = "line85"
       THEN /\ caller' = "line68"
            /\ UNCHANGED <<thread_a_state, thread_b_state, events, state_lock>>
       ELSE IF caller = "line68"
       THEN /\ state_lock = "free"
            /\ thread_a_state' = StopThreadA(thread_a_state, events).state
            /\ events' = StopThreadA(thread_a_state, events).events
            /\ caller' = "line86"
            /\ UNCHANGED <<thread_b_state, state_lock>>
       ELSE IF caller = "line86"
       THEN /\ caller' = "line76"
            /\ UNCHANGED <<thread_a_state, thread_b_state, events, state_lock>>
       ELSE IF caller = "line76"
       THEN /\ state_lock = "free"
            /\ thread_b_state' = StopThreadB(thread_b_state, events).state
            /\ events' = StopThreadB(thread_b_state, events).events
            /\ caller' = "exit"
            /\ UNCHANGED <<thread_a_state, state_lock>>
       ELSE /\ state_lock' = "free"
            /\ caller' = "returned"
            /\ UNCHANGED <<thread_a_state, thread_b_state, events>>
    /\ UNCHANGED <<buttons, last>>
    /\ UNCHANGED market_vars

NextStopAll ==
    \/ NextCoordinator
    \/ StopAllCall
    \/ StopAllStep

\* the thread in stop_all_threads is scheduled as long as it can take a step
SpecStopAll == InitCoordinator /\ [][NextStopAll]_vars /\ WF_vars(StopAllStep)

-----------------------------------------------------------------------------
(* Claims *)

\* C1: a transfer_money call, raising or not, between any two agents (also
\* from an agent to itself) leaves the sum of all balances as it was; so does
\* any sequence of such calls.
C1_MoneyConserved ==
    [][last'.op = "transfer_money" =>
          TotalMoney(agent_money') = TotalMoney(agent_money)]_vars

\* C2: a transfer_good call, raising or not, leaves the total held of every
\* good as it was; so does any sequence of such calls.
C2_GoodsConserved ==
    [][last'.op = "transfer_good" =>
          \A g \in Goods :
             TotalGood(agent_inventories', g) = TotalGood(agent_inventories, g)]_vars

\* C3: when a clear call has ended, by returning or by an error of
\* _fill_order part-way through the queue, the sum of all balances and the
\* total held of every good are what they were when it was called.
C3_ClearConserves ==
    (pc = "idle" /\ last.op \in {"clear", "_fill_order"}) =>
        Totals(agent_money, agent_inventories) = before

\* C4: transfer_money raises the insufficient-funds error exactly when the
\* sender's balance (0 when absent) is below amount, and then no balance
\* changes; otherwise the sender's balance is lower by amount, the receiver's
\* higher by amount (a transfer to oneself leaves the balance as it was), and
\* no other balance changes.
C4_TransferMoneyContract ==
    [][last'.op = "transfer_money" =>
          LET from_agent == last'.args.from_agent
              to_agent   == last'.args.to_agent
              amount     == last'.args.amount
          IN  /\ (last'.raised = "InsufficientFunds")
                    <=> (Get(agent_money, from_agent) < amount)
              /\ last'.raised # "none" =>
                    \A a \in Agents : Get(agent_money', a) = Get(agent_money, a)
              /\ (last'.raised = "none" /\ from_agent # to_agent) =>
                    /\ Get(agent_money', from_agent)
                          = Get(agent_money, from_agent) - amount
                    /\ Get(agent_money', to_agent) = Get(agent_money, to_agent) + amount
              /\ (last'.raised = "none" /\ from_agent = to_agent) =>
                    Get(agent_money', from_agent) = Get(agent_money, from_agent)
              /\ \A a \in Agents \ {from_agent, to_agent} :
                    Get(agent_money', a) = Get(agent_money, a)]_vars

\* C5: transfer_good raises the insufficient-inventory error exactly when the
\* sender holds less than quantity of the good (0 when absent), and then no
\* held quantity changes; in every other case it succeeds, the sender's
\* quantity is lower by quantity, the receiver's higher by quantity (a
\* transfer to oneself leaves the quantity as it was), and the receiver has an
\* entry for the good.
C5_TransferGoodContract ==
    [][last'.op = "transfer_good" =>
          LET from_agent == last'.args.from_agent
              to_agent   == last'.args.to_agent
              good       == last'.args.good
              quantity   == last'.args.quantity
              held(a)    == Held(agent_inventories, a, good)
              held2(a)   == Held(agent_inventories', a, good)
          IN  /\ (last'.raised = "InsufficientInventory") <=> (held(from_agent) < quantity)
              /\ last'.raised = "InsufficientInventory" =>
                    \A a \in Agents, g \in Goods :
                       Held(agent_inventories', a, g) = Held(agent_inventories, a, g)
              /\ ~(held(from_agent) < quantity) =>
                    /\ last'.raised = "none"
                    /\ from_agent # to_agent =>
                          /\ held2(from_agent) = held(from_agent) - quantity
                          /\ held2(to_agent) = held(to_agent) + quantity
                    /\ from_agent = to_agent => held2(from_agent) = held(from_agent)
                    /\ to_agent \in DOMAIN agent_inventories'
                    /\ good \in DOMAIN agent_inventories'[to_agent]]_vars

\* C6: clear drains the queue and takes each order once: when a clear call
\* has ended the queue is empty and every order that was queued when it was
\* called has been tried exactly once, and no pass of clear tries an order that
\* was queued when an earlier clear call was made.
C6_DrainedOnce ==
    [][/\ (pc = "clear" /\ pc' = "idle") =>
             /\ orders' = <<>>
             /\ \A id \in at_start : Get(attempts', id) = 1
       /\ (pc = "clear" /\ orders # <<>>) => Head(orders).id \notin stale]_vars

\* the quote is one the order may be filled against
C7_Routed(quote, order) ==
    /\ quote.firm_id = order.firm_id
    /\ quote.good = order.good
    /\ quote.price <= order.max_price
    /\ quote.quantity_available > 0

\* C7: a pass of clear's loop fills the order only against a quote of the
\* order's seller and good, priced at most max_price and with a positive
\* quantity: no other quote changes, no agent but the order's buyer and seller
\* and no good but the order's gains or loses anything, and when the seller
\* named has no such quote the pass changes nothing and the order is not
\* filled, whatever other sellers quote.
C7_HardRouting ==
    [][(pc = "clear" /\ orders # <<>>) =>
          LET order == Head(orders)
              routed == {i \in 1..Len(quotes) : C7_Routed(quotes[i], order)}
          IN  /\ Len(quotes') = Len(quotes)
              /\ \A i \in 1..Len(quotes) : quotes'[i] # quotes[i] => i \in routed
              /\ last'.op = "_fill_order" /\ last'.ret.qidx # 0 =>
                    last'.ret.qidx \in routed
              /\ \A a \in Agents \ {order.consumer_id, order.firm_id} :
                    /\ Get(agent_money', a) = Get(agent_money, a)
                    /\ \A g \in Goods :
                          Held(agent_inventories', a, g) = Held(agent_inventories, a, g)
              /\ \A a \in Agents, g \in Goods \ {order.good} :
                    Held(agent_inventories', a, g) = Held(agent_inventories, a, g)
              /\ routed = {} =>
                    /\ agent_money' = agent_money
                    /\ agent_inventories' = agent_inventories
                    /\ quotes' = quotes
                    /\ filled_orders' = filled_orders]_vars

\* C7 happens: an order was left unfilled for want of a quote of its seller
\* within max_price while another seller quotes the same good at or below
\* max_price, with quantity to sell
C7_Witness ==
    /\ last.op = "_fill_order"
    /\ last.ret.qidx = 0
    /\ \E i \in 1..Len(quotes) :
          /\ quotes[i].firm_id = last.args.firm_id
          /\ quotes[i].good = last.args.good
          /\ quotes[i].price > last.args.max_price
          /\ quotes[i].quantity_available > 0
    /\ \E j \in 1..Len(quotes) :
          /\ quotes[j].firm_id # last.args.firm_id
          /\ quotes[j].good = last.args.good
          /\ quotes[j].price <= last.args.max_price
          /\ quotes[j].quantity_available > 0

\* C8: when the buyer can afford it, that is balance(buyer) >= price *
\* min(order.quantity, quote.quantity_available) for the matched quote, the
\* pass moves exactly that minimum of the good from the seller to the buyer and
\* exactly price times it of money from the buyer to the seller.
C8_FillSizing ==
    [][(pc = "clear" /\ orders # <<>> /\ orders' = Tail(orders)
        /\ last'.ret.qidx # 0 /\ Head(orders).consumer_id # Head(orders).firm_id) =>
          LET order == Head(orders)
              quote == quotes[last'.ret.qidx]
              buyer == order.consumer_id
              seller == order.firm_id
              quantity == Min(order.quantity, quote.quantity_available)
          IN  Get(agent_money, buyer) * Unit >= quote.price * quantity =>
                 /\ Held(agent_inventories', buyer, order.good)
                       - Held(agent_inventories, buyer, order.good) = quantity
                 /\ Held(agent_inventories, seller, order.good)
                       - Held(agent_inventories', seller, order.good) = quantity
                 /\ (Get(agent_money, buyer) - Get(agent_money', buyer)) * Unit
                       = quote.price * quantity
                 /\ (Get(agent_money', seller) - Get(agent_money, seller)) * Unit
                       = quote.price * quantity]_vars

\* C9: for an order matched to a quote, when balance(buyer) < price *
\* order.quantity and the seller holds the goods, the order is filled, the
\* quantity filled is balance(buyer) / price (the quotient as the division
\* gives it), and the buyer is left with a balance of 0.
C9_ClampCorrect ==
    [][(pc = "clear" /\ orders # <<>> /\ orders' = Tail(orders)
        /\ last'.ret.qidx # 0 /\ Head(orders).consumer_id # Head(orders).firm_id) =>
          LET order == Head(orders)
              quote == quotes[last'.ret.qidx]
              buyer == order.consumer_id
              balance == Get(agent_money, buyer)
          IN  (/\ balance * Unit < quote.price * order.quantity
               /\ last'.raised \notin {"InsufficientInventory", "KeyError"}) =>
                 /\ quote.price # 0 /\ last'.ret.quantity = FDiv(balance, quote.price)
                 /\ last'.ret.filled
                 /\ Get(agent_money', buyer) = 0]_vars

\* C10: no pass of clear's loop ends with the insufficient-funds error of
\* transfer_money.
C10_NoInsufficientFunds ==
    last.op = "_fill_order" => last.raised # "InsufficientFunds"

\* C11: a pass of clear that fills an order, buyer and seller being two
\* agents, with quantity q against a quote of price p leaves the buyer's
\* balance lower by p*q, the seller's higher by p*q, the seller's inventory of
\* the good lower by q, the buyer's higher by q and the matched quote's
\* quantity_available lower by q, and changes no other balance, inventory or
\* quote.
C11_SettlementBookkeeping ==
    [][(pc = "clear" /\ orders # <<>> /\ last'.ret.filled
        /\ Head(orders).consumer_id # Head(orders).firm_id) =>
          LET order == Head(orders)
              i == last'.ret.qidx
              p == quotes[i].price
              q == last'.ret.quantity
              buyer == order.consumer_id
              seller == order.firm_id
          IN  /\ (Get(agent_money, buyer) - Get(agent_money', buyer)) * Unit = p * q
              /\ (Get(agent_money', seller) - Get(agent_money, seller)) * Unit = p * q
              /\ Held(agent_inventories, seller, order.good)
                    - Held(agent_inventories', seller, order.good) = q
              /\ Held(agent_inventories', buyer, order.good)
                    - Held(agent_inventories, buyer, order.good) = q
              /\ Len(quotes') = Len(quotes)
              /\ quotes[i].quantity_available - quotes'[i].quantity_available = q
              /\ \A j \in 1..Len(quotes) : j # i => quotes'[j] = quotes[j]
              /\ \A a \in Agents \ {buyer, seller} :
                    Get(agent_money', a) = Get(agent_money, a)
              /\ \A a \in Agents, g \in Goods :
                    (a \notin {buyer, seller} \/ g # order.good) =>
                       Held(agent_inventories', a, g) = Held(agent_inventories, a, g)]_vars

\* no quote of the registry is one the order may be filled against
C12_NoQuote(qs, order) ==
    \A i \in 1..Len(qs) :
       ~(/\ qs[i].firm_id = order.firm_id
         /\ qs[i].good = order.good
         /\ qs[i].price <= order.max_price
         /\ qs[i].quantity_available > 0)

\* C12: a pass of clear for an order that no quote of the registry qualifies
\* for (seller, good, price <= max_price, quantity_available > 0) changes no
\* balance, no inventory and no quote and raises nothing; the order is not on
\* the list of filled orders, on which a pass puts no order but its own, and
\* which is the list clear returns.
C12_NoSideEffect ==
    [][/\ (pc = "clear" /\ orders # <<>>) =>
             /\ C12_NoQuote(quotes, Head(orders)) =>
                   /\ agent_money' = agent_money
                   /\ agent_inventories' = agent_inventories
                   /\ quotes' = quotes
                   /\ last'.raised = "none"
                   /\ ~last'.ret.filled
                   /\ \A k \in 1..Len(filled_orders') :
                         filled_orders'[k].id # Head(orders).id
             /\ filled_orders' \in {<<>>, filled_orders,
                                    Append(filled_orders, Head(orders))}
             /\ \A k \in 2..Len(orders) : orders[k].id # Head(orders).id
       /\ (pc = "clear" /\ orders = <<>>) =>
             last'.op = "clear" /\ last'.ret = filled_orders]_vars

\* C12 happens: an order found no qualifying quote in a registry that holds
\* quotes
C12_Witness ==
    /\ last.op = "_fill_order"
    /\ last.raised = "none"
    /\ ~last.ret.filled
    /\ quotes # <<>>
    /\ C12_NoQuote(quotes, last.args)

\* C13: a quote whose quantity_available is 0 is never the quote a pass of
\* clear selects and is not changed by it, whatever its price and the order's
\* max_price; an order whose seller's quote for the good has quantity 0 is not
\* filled, and no balance and no inventory changes.
C13_ZeroQuotesNeverMatch ==
    [][(pc = "clear" /\ orders # <<>>) =>
          LET order == Head(orders)
              zero == {i \in 1..Len(quotes) : quotes[i].quantity_available = 0}
              mine == {i \in 1..Len(quotes) : /\ quotes[i].firm_id = order.firm_id
                                              /\ quotes[i].good = order.good}
          IN  /\ last'.ret.qidx \notin zero
              /\ Len(quotes') = Len(quotes)
              /\ \A i \in zero : quotes'[i] = quotes[i]
              /\ (mine # {} /\ mine \subseteq zero) =>
                    /\ ~last'.ret.filled
                    /\ agent_money' = agent_money
                    /\ agent_inventories' = agent_inventories
                    /\ filled_orders' = filled_orders]_vars

\* C13 happens: an order was left unfilled whose seller quotes the good within
\* max_price with quantity_available 0
C13_Witness ==
    /\ last.op = "_fill_order"
    /\ ~last.ret.filled
    /\ \E i \in 1..Len(quotes) :
          /\ quotes[i].firm_id = last.args.firm_id
          /\ quotes[i].good = last.args.good
          /\ quotes[i].price <= last.args.max_price
          /\ quotes[i].quantity_available = 0

\* no two entries of the registry have the same seller and good
C14_UniqueKeys(qs) ==
    \A i, j \in 1..Len(qs) :
       (qs[i].firm_id = qs[j].firm_id /\ qs[i].good = qs[j].good) => i = j

\* the entries of the registry under the key (firm_id, good)
C14_Entries(qs, firm_id, good) ==
    {qs[i] : i \in {j \in 1..Len(qs) : qs[j].firm_id = firm_id /\ qs[j].good = good}}

\* C14: the registry never holds two quotes of the same seller and good, and
\* a post_quote(q) call leaves under q's key the one entry q, with q's price
\* and quantity_available, and every other key's entry as it was.
C14_ReplaceSemantics ==
    /\ []C14_UniqueKeys(quotes)
    /\ [][last'.op = "post_quote" =>
             LET q == last'.args
             IN  /\ C14_Entries(quotes', q.firm_id, q.good) = {q}
                 /\ \A firm_id \in Agents, good \in Goods :
                       (firm_id # q.firm_id \/ good # q.good) =>
                          C14_Entries(quotes', firm_id, good)
                             = C14_Entries(quotes, firm_id, good)
                 /\ Len(quotes') = Cardinality({<<quotes[i].firm_id, quotes[i].good>> :
                                                  i \in 1..Len(quotes)}
                                               \cup {<<q.firm_id, q.good>>})]_vars

\* C14 happens: the first call made on a registry of two quotes was a
\* post_quote of seller B for good x, which B already quoted at another price
\* or quantity, and the registry holds two quotes again, the new one last
C14_Witness ==
    /\ last.op = "post_quote"
    /\ calls = 1
    /\ Len(quotes) = 2
    /\ quotes[2] = last.args
    /\ last.args.firm_id = "B"
    /\ last.args.good = "x"
    /\ (last.args.price # Num(3) \/ last.args.quantity_available # Num(7))

\* C15: a clear call made on an empty queue returns the empty list and
\* changes no balance, no inventory, no quote and not the queue, at its call
\* and at its return, however often it is repeated.
C15_EmptyClear ==
    [][/\ (pc = "idle" /\ pc' = "clear" /\ orders = <<>>) =>
             UNCHANGED <<agent_money, agent_inventories, quotes, orders>>
       /\ (pc = "clear" /\ at_start = {}) =>
             /\ last'.op = "clear"
             /\ last'.raised = "none"
             /\ last'.ret = <<>>
             /\ orders' = <<>>
             /\ UNCHANGED <<agent_money, agent_inventories, quotes, orders>>]_vars

\* C15 happens: clear has returned from a call made on an empty queue, with a
\* funded ledger and quotes in the registry
C15_Witness ==
    /\ last.op = "clear"
    /\ at_start = {}
    /\ last.ret = <<>>
    /\ quotes # <<>>
    /\ agent_money # EmptyDict

\* the orders of the sequence are in the order of their submission
C16_Ascending(os) == \A i, j \in 1..Len(os) : i < j => os[i].id < os[j].id

\* C16: submit_order puts the order at the tail of the queue and touches
\* neither the ledger nor the registry; the queue and the list of filled orders
\* are always in submission order; each pass of clear takes the order at the
\* head, which was submitted before every other order queued; and the list
\* clear returns is, in submission order, a part of the orders that were queued
\* when it was called.
C16_Fifo ==
    /\ [](C16_Ascending(orders) /\ C16_Ascending(filled_orders))
    /\ [][/\ last'.op = "submit_order" =>
                /\ orders' = Append(orders, last'.args)
                /\ \A k \in 1..Len(orders) : orders[k].id < last'.args.id
                /\ UNCHANGED <<agent_money, agent_inventories, quotes>>
          /\ (pc = "clear" /\ orders # <<>>) =>
                /\ last'.op = "_fill_order"
                /\ last'.args = Head(orders)
                /\ orders' = Tail(orders)
                /\ \A k \in 2..Len(orders) : Head(orders).id < orders[k].id
          /\ last'.op = "clear" =>
                /\ C16_Ascending(last'.ret)
                /\ \A k \in 1..Len(last'.ret) : last'.ret[k].id \in at_start]_vars

\* C16 happens: two orders were queued for the same seller and good, the
\* later one offering at least the price of the earlier; the earlier one was
\* filled and exhausted the quote, and the later one was left unfilled
C16_Witness ==
    /\ last.op = "_fill_order"
    /\ last.args.id = 2
    /\ ~last.ret.filled
    /\ Len(filled_orders) = 1
    /\ filled_orders[1].id = 1
    /\ filled_orders[1].firm_id = last.args.firm_id
    /\ filled_orders[1].good = last.args.good
    /\ filled_orders[1].max_price <= last.args.max_price
    /\ \E i \in 1..Len(quotes) :
          /\ quotes[i].firm_id = last.args.firm_id
          /\ quotes[i].good = last.args.good
          /\ quotes[i].quantity_available = 0

\* C17: a transfer_money call or a pass of clear made when no balance is
\* negative leaves no balance negative, so that no sequence of them does.
C17_OnlyCreditGoesNegative ==
    [][(/\ last'.op \in {"transfer_money", "_fill_order"}
        /\ \A a \in Agents : Get(agent_money, a) >= 0) =>
          \A a \in Agents : Get(agent_money', a) >= 0]_vars

\* C18: a pass of clear that matches an order to a quote trades at the quote's
\* price, which is at most order.max_price, and the buyer's balance falls by no
\* more than order.max_price * order.quantity.
C18_PriceCeiling ==
    [][(pc = "clear" /\ orders # <<>> /\ last'.ret.qidx # 0) =>
          LET order == Head(orders)
              quote == quotes[last'.ret.qidx]
              buyer == order.consumer_id
          IN  /\ quote.price <= order.max_price
              /\ last'.ret.filled =>
                    last'.ret.total_cost = FMul(quote.price, last'.ret.quantity)
              /\ (Get(agent_money, buyer) - Get(agent_money', buyer)) * Unit
                    <= order.max_price * order.quantity]_vars

\* C19: the list of a clear call starts empty; a pass that raises nothing puts
\* its order on the list exactly when it settled a fill, that is when it
\* matched a quote and both transfers were made; a pass that matches no quote
\* raises nothing; and clear returns that list, whose orders were all queued
\* when clear was called.
C19_FilledListExact ==
    [][/\ (pc = "idle" /\ pc' = "clear") => filled_orders' = <<>>
       /\ (pc = "clear" /\ orders # <<>>) =>
             /\ last'.ret.qidx = 0 => last'.raised = "none"
             /\ last'.raised = "none" =>
                   filled_orders' = IF last'.ret.qidx # 0
                                    THEN Append(filled_orders, Head(orders))
                                    ELSE filled_orders
       /\ last'.op = "clear" =>
             /\ last'.raised = "none"
             /\ last'.ret = filled_orders
             /\ \A k \in 1..Len(last'.ret) : last'.ret[k].id \in at_start]_vars

\* C19 happens: clear has returned one order of the two that were queued
C19_Witness ==
    /\ last.op = "clear"
    /\ Cardinality(at_start) = 2
    /\ Len(last.ret) = 1

\* C20: no step but a post_quote call adds, removes or reorders an entry of
\* the registry or changes an entry's seller, good or price; an entry with
\* quantity_available 0 is left as it is; the only change to an entry is that
\* of a pass of clear to the quote it filled the order against, whose
\* quantity_available it lowers by the quantity filled; and a pass sizes its
\* fill by the quantity_available the entry has then.
C20_QuotesPersist ==
    [][last'.op # "post_quote" =>
          /\ Len(quotes') = Len(quotes)
          /\ \A i \in 1..Len(quotes) :
                /\ quotes'[i].firm_id = quotes[i].firm_id
                /\ quotes'[i].good = quotes[i].good
                /\ quotes'[i].price = quotes[i].price
                /\ quotes[i].quantity_available = 0 => quotes'[i] = quotes[i]
                /\ quotes'[i] # quotes[i] =>
                      /\ last'.op = "_fill_order"
                      /\ last'.ret.filled
                      /\ last'.ret.qidx = i
                      /\ quotes'[i].quantity_available
                            = FSub(quotes[i].quantity_available, last'.ret.quantity)
          /\ (last'.op = "_fill_order" /\ last'.ret.qidx # 0 /\ ~last'.ret.clamped) =>
                last'.ret.quantity
                   = Min(Head(orders).quantity,
                         quotes[last'.ret.qidx].quantity_available)]_vars

\* C20 happens: clear has returned an order it filled against a quote that
\* the fills of the call exhausted, and the quote is in the registry with
\* quantity_available 0
C20_Witness ==
    /\ last.op = "clear"
    /\ \E k \in 1..Len(last.ret), i \in 1..Len(quotes) :
          /\ quotes[i].firm_id = last.ret[k].firm_id
          /\ quotes[i].good = last.ret[k].good
          /\ quotes[i].quantity_available = 0

\* the balances with an entry, 0 if there was none, for every agent
C21_ZeroMoney(money) == [a \in Agents |-> Get(money, a)]

\* the inventories with an entry, 0 if there was none, for every agent and good
C21_ZeroInv(inv) == [a \in Agents |-> [g \in Goods |-> Held(inv, a, g)]]

\* C21: a credit, transfer_money, transfer_good or add_good call ends, in the
\* error it raises and in every balance and held quantity it leaves, as the
\* same call does on the ledger in which every agent has a balance and an
\* entry for every good, 0 where there was none; and it raises no KeyError.
C21_LazyInit ==
    [][/\ last'.op \in {"credit", "transfer_money", "transfer_good", "add_good"} =>
             last'.raised # "KeyError"
       /\ last'.op = "credit" =>
             LET m == Credit(C21_ZeroMoney(agent_money), last'.args.agent_id,
                             last'.args.amount)
             IN  \A a \in Agents : Get(agent_money', a) = m[a]
       /\ last'.op = "transfer_money" =>
             LET r == TransferMoney(C21_ZeroMoney(agent_money), last'.args.from_agent,
                                    last'.args.to_agent, last'.args.amount)
             IN  /\ last'.raised = r.raised
                 /\ \A a \in Agents : Get(agent_money', a) = r.money[a]
       /\ last'.op = "transfer_good" =>
             LET r == TransferGood(C21_ZeroInv(agent_inventories),
                                   last'.args.from_agent, last'.args.to_agent,
                                   last'.args.good, last'.args.quantity)
             IN  /\ last'.raised = r.raised
                 /\ \A a \in Agents, g \in Goods :
                       Held(agent_inventories', a, g) = r.inv[a][g]
       /\ last'.op = "add_good" =>
             LET i == AddGood(C21_ZeroInv(agent_inventories), last'.args.to_agent,
                              last'.args.good, last'.args.quantity)
             IN  \A a \in Agents, g \in Goods :
                    Held(agent_inventories', a, g) = i[a][g]]_vars

\* the balances that the calls of thread s and then of thread t leave when
\* made one after the other on the balances money
C22_Serial(money, s, t) ==
    LET r1 == TransferMoney(money, threads[s].from_agent, threads[s].to_agent,
                            threads[s].amount)
        r2 == TransferMoney(r1.money, threads[t].from_agent, threads[t].to_agent,
                            threads[t].amount)
    IN  r2.money

\* C22: when two threads have both ended their transfer_money calls, every
\* agent's balance is what one of the two serial orders of the calls leaves;
\* and two calls that draw amounts > 0 on the same sender, whose balance when
\* they were entered covers each but not both, have not both succeeded.
C22_Atomic ==
    (\A t \in DOMAIN threads : threads[t].at = "done") =>
        /\ \A s, t \in DOMAIN threads :
              (/\ s # t
               /\ threads[s].from_agent = threads[t].from_agent
               /\ threads[s].amount > 0
               /\ threads[t].amount > 0
               /\ Get(spawned, threads[s].from_agent) < threads[s].amount + threads[t].amount)
              => ~(threads[s].raised = "none" /\ threads[t].raised = "none")
        /\ \A s, t \in DOMAIN threads :
              s < t =>
                 \/ \A a \in Agents : Get(agent_money, a) = Get(C22_Serial(spawned, s, t), a)
                 \/ \A a \in Agents : Get(agent_money, a) = Get(C22_Serial(spawned, t, s), a)


C24_PurchaseSupplies ==
    [][(last'.op = "purchase_supplies" /\ last'.raised = "none") =>
          LET cash == CashView(agent_money, FirmName)
              amount == Min(FMul(last'.args.quantity_to_purchase, last'.args.unit_price), cash)
              bought == FDiv(amount, last'.args.unit_price)
          IN  /\ CashView(agent_money', FirmName) = cash - amount
              /\ SuppliesView(agent_inventories', FirmName)
                    = SuppliesView(agent_inventories, FirmName) + bought
              /\ last'.ret.total_quantity = bought
              /\ cash >= 0 => CashView(agent_money', FirmName) >= 0]_vars


\* C25: produce_goods with a supply s > 0 and n goods raises the firm's
\* inventory of each of its goods by s / n and leaves a supply of 0; with a
\* supply of 0 or less it changes nothing.
C25_ProduceGoods ==
    [][last'.op = "produce_goods" =>
          LET s == SuppliesView(agent_inventories, FirmName)
              n == Len(FirmGoods)
          IN  IF s > 0
              THEN /\ \A i \in 1..n :
                         InventoryView(agent_inventories', FirmName)[FirmGoods[i]]
                            = InventoryView(agent_inventories, FirmName)[FirmGoods[i]]
                              + FDiv(s, Num(n))
                   /\ SuppliesView(agent_inventories', FirmName) = 0
              ELSE /\ agent_inventories' = agent_inventories
                   /\ agent_money' = agent_money]_vars


\* the quotes of the seller for the good in a registry
C26_QuotesFor(qs, firm_id, good) ==
    {i \in 1..Len(qs) : qs[i].firm_id = firm_id /\ qs[i].good = good}

\* C26: post_quotes(prices) leaves exactly one quote for each priced good the
\* firm holds in positive quantity, with the price given and with
\* quantity_available equal to the firm's inventory of the good in the ledger
\* at that time; for a good of which it holds nothing it leaves the registry
\* as it was, the quote already there, if any, included.
C26_PostQuotes ==
    [][last'.op = "post_quotes" =>
          \A good \in Goods :
             LET held == Held(agent_inventories, FirmName, good)
                 was == C26_QuotesFor(quotes, FirmName, good)
                 now == C26_QuotesFor(quotes', FirmName, good)
             IN  IF held > 0
                 THEN /\ Cardinality(now) = 1
                      /\ \A i \in now :
                            /\ quotes'[i].price = last'.args.price
                            /\ quotes'[i].quantity_available = held
                 ELSE /\ Cardinality(now) = Cardinality(was)
                      /\ \A i \in now : \E j \in was : quotes'[i] = quotes[j]]_vars

\* post_quotes has posted a quote for one good and has left alone the quote,
\* posted before, of a good of which the firm holds nothing any more
C26_Witness ==
    /\ last.op = "post_quotes"
    /\ \E g, h \in Goods :
          /\ Held(agent_inventories, FirmName, g) > 0
          /\ Held(agent_inventories, FirmName, h) = 0
          /\ C26_QuotesFor(quotes, FirmName, g) # {}
          /\ C26_QuotesFor(quotes, FirmName, h) # {}


\* the cost of the orders at their prices, in quanta of a quantum
C27_Cost(os) == SumOf([i \in 1..Len(os) |-> os[i].quantity * os[i].max_price], 1..Len(os))

\* C27: make_orders, with cash c and n goods in the consumer's inventory and
\* quotes of positive price, submits for each good at most one order, and one
\* only if the registry has a quote for the good: it goes to the firm of the
\* first such quote, for min((c / n) / price, quantity_available) at a
\* max_price equal to the quote's price; the orders submitted cost together,
\* at these prices, no more than c.
C27_MakeOrders ==
    [][(last'.op = "make_orders" /\ last'.raised = "none") =>
          LET c == last'.args.cash
              n == last'.args.n
              new == last'.ret
          IN  /\ n = Cardinality(DOMAIN InventoryView(agent_inventories, ConsumerName))
              /\ c = Get(agent_money, ConsumerName)
              /\ orders' = orders \o new
              /\ \A good \in DOMAIN InventoryView(agent_inventories, ConsumerName) :
                    LET mine == {i \in 1..Len(new) : new[i].good = good}
                        q == FirstQuote(quotes, good)
                    IN  IF q = 0 THEN mine = {}
                        ELSE /\ Cardinality(mine) = 1
                             /\ \A i \in mine :
                                   /\ new[i].consumer_id = ConsumerName
                                   /\ new[i].firm_id = quotes[q].firm_id
                                   /\ new[i].quantity
                                         = Min(FDiv(FDiv(c, Num(n)), quotes[q].price),
                                               quotes[q].quantity_available)
                                   /\ new[i].max_price = quotes[q].price
              /\ C27_Cost(new) <= c * Unit]_vars

\* C28: a pass of clear that ends with an error has changed no balance and no
\* held quantity, and a pass that has lowered the buyer's balance has filled
\* the order.
C28_AllOrNothing ==
    [][(pc = "clear" /\ orders # <<>>) =>
          LET order == Head(orders)
              buyer == order.consumer_id
          IN  /\ last'.raised # "none" =>
                    /\ \A a \in Agents : Get(agent_money', a) = Get(agent_money, a)
                    /\ \A a \in Agents, g \in Goods :
                          Held(agent_inventories', a, g) = Held(agent_inventories, a, g)
              /\ Get(agent_money', buyer) < Get(agent_money, buyer) =>
                    last'.ret.filled]_vars


\* C29: in the run of the two agents, where quotes come from post_quotes with
\* the prices of set_price and inventories change through purchase_supplies,
\* produce_goods and clear only, no quote of the registry offers more than its
\* seller holds of the good in the ledger, and no pass of clear ends with the
\* insufficient-inventory error.
C29_QuotesBacked ==
    /\ \A i \in 1..Len(quotes) :
          quotes[i].quantity_available
             <= Held(agent_inventories, quotes[i].firm_id, quotes[i].good)
    /\ last.raised # "InsufficientInventory"

\* clear has sold a part of what a quote of the firm offered, the firm having
\* produced more of the good since it posted the quote
C29_Witness ==
    /\ last.op = "_fill_order"
    /\ last.ret.filled
    /\ last.ret.quantity > 0
    /\ quotes[last.ret.qidx].firm_id = FirmName
    /\ quotes[last.ret.qidx].quantity_available > 0
    /\ quotes[last.ret.qidx].quantity_available
          < Held(agent_inventories, FirmName, last.args.good)
    /\ Held(agent_inventories, ConsumerName, last.args.good) > 0


\* C30: a pass of clear against quotes that offer a quantity >= 0 delivers no
\* more than the matched quote offered, and leaves every quote with a
\* quantity_available that is not negative and not above what it was.
C30_NoOverselling ==
    [][(pc = "clear" /\ orders # <<>>
          /\ \A i \in 1..Len(quotes) : quotes[i].quantity_available >= 0) =>
          /\ Len(quotes') = Len(quotes)
          /\ \A i \in 1..Len(quotes) :
                /\ quotes'[i].quantity_available >= 0
                /\ quotes'[i].quantity_available <= quotes[i].quantity_available
          /\ last'.ret.filled =>
                last'.ret.quantity <= quotes[last'.ret.qidx].quantity_available]_vars


\* C31: a pass of clear that fills an order delivers a quantity q with
\* 0 <= q <= min(order.quantity, quantity_available of the matched quote
\* before the fill), and no pass of clear raises the buyer's balance, lowers
\* the seller's, lowers the buyer's holding of the good or raises the seller's.
C31_FillBounds ==
    [][(pc = "clear" /\ orders # <<>>) =>
          LET order == Head(orders)
              buyer == order.consumer_id
              seller == order.firm_id
          IN  /\ last'.ret.filled =>
                    /\ last'.ret.quantity >= 0
                    /\ last'.ret.quantity
                          <= Min(order.quantity, quotes[last'.ret.qidx].quantity_available)
              /\ buyer # seller =>
                    /\ Get(agent_money', buyer) <= Get(agent_money, buyer)
                    /\ Get(agent_money', seller) >= Get(agent_money, seller)
                    /\ Held(agent_inventories', buyer, order.good)
                          >= Held(agent_inventories, buyer, order.good)
                    /\ Held(agent_inventories', seller, order.good)
                          <= Held(agent_inventories, seller, order.good)]_vars


\* C32: an order that a pass of clear puts on the list clear returns has
\* received a quantity > 0 and has paid an amount > 0, and its buyer's balance
\* was not 0 when the pass began.
C32_FilledMeansTraded ==
    [][(pc = "clear" /\ orders # <<>> /\ Len(filled_orders') > Len(filled_orders)) =>
          /\ last'.ret.quantity > 0
          /\ last'.ret.total_cost > 0
          /\ Get(agent_money, Head(orders).consumer_id) # 0]_vars


\* two orders of different buyers, on different (seller, good) pairs, neither
\* buyer being the seller of the other order
C33_Independent(o1, o2) ==
    /\ o1.consumer_id # o2.consumer_id
    /\ <<o1.firm_id, o1.good>> # <<o2.firm_id, o2.good>>
    /\ o1.consumer_id # o2.firm_id
    /\ o2.consumer_id # o1.firm_id

\* what of a run of clear the claim compares: the balances, the holdings, the
\* quantities quoted and the set of orders filled
C33_Outcome(r) ==
    [money  |-> [a \in Agents |-> Get(r.money, a)],
     inv    |-> [a \in Agents |-> [g \in Goods |-> Held(r.inv, a, g)]],
     quoted |-> [i \in 1..Len(r.quotes) |-> r.quotes[i].quantity_available],
     filled |-> {r.filled[i].id : i \in 1..Len(r.filled)}]

\* C33: when two independent orders are queued, clear leaves the same
\* balances, holdings and quoted quantities, and fills the same orders, with
\* the two in either order.
C33_Commute ==
    (pc = "idle" /\ Len(orders) = 2 /\ C33_Independent(orders[1], orders[2])) =>
        C33_Outcome(Clear(orders, agent_money, agent_inventories, quotes, <<>>))
           = C33_Outcome(Clear(<<orders[2], orders[1]>>, agent_money, agent_inventories,
                               quotes, <<>>))


\* C34: in every state reached by pressing enabled buttons of the window,
\* Thread B is RUNNING only while Thread A is PAUSED.
C34_BOnlyWhileAPaused ==
    thread_b_state = "RUNNING" => thread_a_state = "PAUSED"

\* C35: when the Stop button of a thread is enabled and the thread is RUNNING
\* or PAUSED, pressing it leaves the thread STOPPED.
C35_StopStops ==
    [][/\ (last'.op = "stop_a" /\ thread_a_state \in {"RUNNING", "PAUSED"}) =>
             thread_a_state' = "STOPPED"
       /\ (last'.op = "stop_b" /\ thread_b_state \in {"RUNNING", "PAUSED"}) =>
             thread_b_state' = "STOPPED"]_vars

\* C36: a call of stop_all_threads returns in the end, with state_lock free
\* and neither thread RUNNING.
C36_StopAllReturns ==
    (caller = "line85") ~>
        (/\ caller = "returned"
         /\ state_lock = "free"
         /\ thread_a_state # "RUNNING"
         /\ thread_b_state # "RUNNING")

====
